---- MODULE Spec2Model ----
(***************************************************************************)
(* Model of validator/journal/protocol/journal_transfer.py: the            *)
(* JournalTransfer object that copies a journal from a randomly chosen     *)
(* peer.  Every handler of the class is one action; the helper methods     *)
(* (_kick_off_next_block, _kick_off_next_transaction, _handleuncommitted,  *)
(* _finish) are operators on a record of the object's fields, composed     *)
(* the way the handlers call them.                                         *)
(*                                                                         *)
(* The peer answers every request it gets exactly once: with the reply of  *)
(* the request's kind or with TransferFailed (both carry InReplyTo).  The  *)
(* dispatcher calls a handler only while it is registered.  The fields     *)
(* that initiate_journal_transfer creates do not exist before its first    *)
(* successful run; until then they are shown empty.                        *)
(***************************************************************************)
EXTENDS Integers, Sequences, FiniteSets, TLC

\* ------------------------------------------------------------------ bounds
\* most ids one attempt receives in the pages of one list
MaxIds == 2

\* ------------------------------------------------------- the environment
Peers == {"p1", "p2"}
\* the values gossip.peer_list() takes: no peer, or both
PeerLists == {{}, Peers}
Blocks == {"b1", "b2"}
Txns == {"t1", "t2"}

\* the transaction ids of each block of the chain (t2 is in both blocks)
ChainTransactionIDs(b) == IF b = "b1" THEN <<"t1", "t2">> ELSE <<"t2">>

\* the five message kinds initiate_journal_transfer registers a handler for
ReplyKinds ==
  {"BlockListReplyMessage", "BlockReplyMessage", "UncommittedListReplyMessage",
   "TransactionReplyMessage", "TransferFailedMessage"}

\* the value of a map entry whose record has not arrived yet
None == [Identifier |-> "None", origin |-> "None"]

\* records; origin tells a copy of the local store from a body the peer sent
BlockRecord(b, o) ==
  [Identifier |-> b, TransactionIDs |-> ChainTransactionIDs(b), origin |-> o]
TransactionRecord(t, o) == [Identifier |-> t, origin |-> o]

\* ------------------------------------------------------------- OrderedDict
OD_Has(m, k) == \E i \in 1..Len(m) : m[i].k = k
OD_Keys(m) == [i \in 1..Len(m) |-> m[i].k]
OD_Get(m, k) == (CHOOSE e \in {m[i] : i \in 1..Len(m)} : e.k = k).v
\* m[k] = v: a new key goes to the end, an old key keeps its place
OD_Set(m, k, v) ==
  IF OD_Has(m, k)
  THEN [i \in 1..Len(m) |-> IF m[i].k = k THEN [k |-> k, v |-> v] ELSE m[i]]
  ELSE Append(m, [k |-> k, v |-> v])

VARIABLES
  pc,                      \* "new" before start_journal_transfer, then "started"/"declined"
  peer_list,               \* gossip.peer_list()
  BlockStore,              \* ids of Journal.BlockStore
  TransactionStore,        \* ids of Journal.TransactionStore
  Peer,                    \* self.Peer
  BlockMap, PendingBlocks, TransactionMap, PendingTransactions,
  ProcessingUncommitted, UncommittedTransactions,
  handlers,                \* message kinds with a registered handler
  timers,                  \* reactor.callLater calls not yet fired
  net,                     \* requests sent to the peer and not yet answered
  journal,                 \* calls made on the journal by _finish, in order
  callbacks,               \* times self.Callback() was called
  log,                     \* this attempt's sends and receipts, in order
  discB, discT,            \* every id marked pending in this attempt, in order
  lastop,                  \* the operation that made the last step
  everPeer,                \* the peer list has been non-empty at some time
  everFailed,              \* a TransferFailed has been handled at some time
  lost                     \* an attempt failed while its maps held ids

vars ==
  <<pc, peer_list, BlockStore, TransactionStore, Peer, BlockMap, PendingBlocks,
    TransactionMap, PendingTransactions, ProcessingUncommitted,
    UncommittedTransactions, handlers, timers, net, journal, callbacks, log,
    discB, discT, lastop, everPeer, everFailed, lost>>

\* the fields a handler reads and writes, as one record
Self ==
  [Peer |-> Peer, BlockMap |-> BlockMap, PendingBlocks |-> PendingBlocks,
   TransactionMap |-> TransactionMap, PendingTransactions |-> PendingTransactions,
   ProcessingUncommitted |-> ProcessingUncommitted,
   UncommittedTransactions |-> UncommittedTransactions,
   handlers |-> handlers, timers |-> timers, net |-> net, journal |-> journal,
   callbacks |-> callbacks, log |-> log, discB |-> discB, discT |-> discT]

Store(s) ==
  /\ Peer' = s.Peer
  /\ BlockMap' = s.BlockMap
  /\ PendingBlocks' = s.PendingBlocks
  /\ TransactionMap' = s.TransactionMap
  /\ PendingTransactions' = s.PendingTransactions
  /\ ProcessingUncommitted' = s.ProcessingUncommitted
  /\ UncommittedTransactions' = s.UncommittedTransactions
  /\ handlers' = s.handlers
  /\ timers' = s.timers
  /\ net' = s.net
  /\ journal' = s.journal
  /\ callbacks' = s.callbacks
  /\ log' = s.log
  /\ discB' = s.discB
  /\ discT' = s.discT

\* gossip.send_message(request, self.Peer.Identifier)
send_message(s, request) ==
  [s EXCEPT !.net = Append(@, request),
            !.log = Append(@, [ev |-> "send", msg |-> request])]

BlockListRequestMessage(i) == [type |-> "BlockListRequestMessage", BlockListIndex |-> i]
BlockRequestMessage(b) == [type |-> "BlockRequestMessage", BlockID |-> b]
TransactionRequestMessage(t) == [type |-> "TransactionRequestMessage", TransactionID |-> t]
UncommittedListRequestMessage(i) ==
  [type |-> "UncommittedListRequestMessage", TransactionListIndex |-> i]

\* ------------------------------------------------------------ the methods
\* marking that resets the entry of an id it has seen before but does not
\* put the id in the queue a second time
RECURSIVE MarkTransactions_once(_, _)
MarkTransactions_once(s, ids) ==
  IF ids = <<>> THEN s
  ELSE MarkTransactions_once(
         [s EXCEPT !.TransactionMap = OD_Set(@, Head(ids), None),
                   !.PendingTransactions =
                      IF OD_Has(s.TransactionMap, Head(ids)) THEN @
                      ELSE Append(@, Head(ids)),
                   !.discT = Append(@, Head(ids))],
         Tail(ids))

\* for txnid in ...TransactionIDs: TransactionMap[txnid] = None; append
RECURSIVE MarkTransactions(_, _)
MarkTransactions(s, ids) ==
  IF ids = <<>> THEN s
  ELSE MarkTransactions(
         [s EXCEPT !.TransactionMap = OD_Set(@, Head(ids), None),
                   !.PendingTransactions = Append(@, Head(ids)),
                   !.discT = Append(@, Head(ids))],
         Tail(ids))

\* for blockid in msg.BlockIDs: BlockMap[blockid] = None; append
RECURSIVE MarkBlocks(_, _)
MarkBlocks(s, ids) ==
  IF ids = <<>> THEN s
  ELSE MarkBlocks(
         [s EXCEPT !.BlockMap = OD_Set(@, Head(ids), None),
                   !.PendingBlocks = Append(@, Head(ids)),
                   !.discB = Append(@, Head(ids))],
         Tail(ids))

\* for txnid in msg.TransactionIDs: UncommittedTransactions.append(txnid)
SaveUncommitted(s, ids) ==
  [s EXCEPT !.UncommittedTransactions = @ \o ids]

\* the clear_message_handler calls without the one for TransferFailedMessage
ClearHandlers_four(s) ==
  [s EXCEPT !.handlers =
     (((@ \ {"BlockListReplyMessage"}) \ {"BlockReplyMessage"})
        \ {"UncommittedListReplyMessage"}) \ {"TransactionReplyMessage"}]

\* the five clear_message_handler calls of _failedhandler and _finish
ClearHandlers(s) ==
  [s EXCEPT !.handlers =
     ((((@ \ {"BlockListReplyMessage"}) \ {"BlockReplyMessage"})
        \ {"UncommittedListReplyMessage"}) \ {"TransactionReplyMessage"})
        \ {"TransferFailedMessage"}]

RECURSIVE _kick_off_next_transaction(_)
_kick_off_next_transaction(s) ==
  IF Len(s.PendingTransactions) > 0
  THEN LET txnid == Head(s.PendingTransactions)
           s1 == [s EXCEPT !.PendingTransactions = Tail(@)]
       IN IF txnid \notin TransactionStore
          THEN [s |-> send_message(s1, TransactionRequestMessage(txnid)),
                ret |-> TRUE]
          ELSE _kick_off_next_transaction(
                 [s1 EXCEPT !.TransactionMap =
                    OD_Set(@, txnid, TransactionRecord(txnid, "local"))])
  ELSE [s |-> s, ret |-> FALSE]

\* _kick_off_next_block without the return after send_message: the loop goes
\* on to the ids behind the one it asked for
RECURSIVE _kick_off_next_block_noreturn(_)
_kick_off_next_block_noreturn(s) ==
  IF Len(s.PendingBlocks) > 0
  THEN LET blockid == Head(s.PendingBlocks)
           s1 == [s EXCEPT !.PendingBlocks = Tail(@)]
       IN IF blockid \notin BlockStore
          THEN [s |-> _kick_off_next_block_noreturn(
                        send_message(s1, BlockRequestMessage(blockid))).s,
                ret |-> TRUE]
          ELSE LET s2 == [s1 EXCEPT !.BlockMap =
                            OD_Set(@, blockid, BlockRecord(blockid, "local"))]
               IN _kick_off_next_block_noreturn(
                    MarkTransactions(s2, OD_Get(s2.BlockMap, blockid).TransactionIDs))
  ELSE _kick_off_next_transaction(s)

\* _kick_off_next_block without the look in Journal.BlockStore
_kick_off_next_block_nodedup(s) ==
  IF Len(s.PendingBlocks) > 0
  THEN [s |-> send_message([s EXCEPT !.PendingBlocks = Tail(@)],
                           BlockRequestMessage(Head(s.PendingBlocks))),
        ret |-> TRUE]
  ELSE _kick_off_next_transaction(s)

RECURSIVE _kick_off_next_block(_)
_kick_off_next_block(s) ==
  IF Len(s.PendingBlocks) > 0
  THEN LET blockid == Head(s.PendingBlocks)
           s1 == [s EXCEPT !.PendingBlocks = Tail(@)]
       IN IF blockid \notin BlockStore
          THEN [s |-> send_message(s1, BlockRequestMessage(blockid)),
                ret |-> TRUE]
          ELSE LET s2 == [s1 EXCEPT !.BlockMap =
                            OD_Set(@, blockid, BlockRecord(blockid, "local"))]
               IN _kick_off_next_block(
                    MarkTransactions(s2, OD_Get(s2.BlockMap, blockid).TransactionIDs))
  ELSE _kick_off_next_transaction(s)

\* _finish with the two loops in the other order: blocks, then transactions
Submissions_blocksfirst(s) ==
  [i \in 1..Len(s.BlockMap) |->
     [call |-> "commit_transaction_block", arg |-> s.BlockMap[i].v]]
  \o
  [i \in 1..Len(s.TransactionMap) |->
     [call |-> "add_pending_transaction", arg |-> s.TransactionMap[i].v]]

\* the submissions _finish makes when nothing raises: the transactions of
\* TransactionMap, then the blocks of BlockMap, each in the map's order
Submissions(s) ==
  [i \in 1..Len(s.TransactionMap) |->
     [call |-> "add_pending_transaction", arg |-> s.TransactionMap[i].v]]
  \o
  [i \in 1..Len(s.BlockMap) |->
     [call |-> "commit_transaction_block", arg |-> s.BlockMap[i].v]]

\* _finish with a try around each call instead of one around both loops:
\* the calls after the one that raised are still made
_finish_continues(s, k) ==
  LET subs == Submissions(s)
      made == [i \in 1..Len(subs) |->
                 [call |-> subs[i].call, arg |-> subs[i].arg, raised |-> (i = k)]]
      s1 == [s EXCEPT !.journal = @ \o made]
      s2 == ClearHandlers(s1)
  IN [s2 EXCEPT !.callbacks = @ + 1]

\* _finish without the five clear_message_handler calls
_finish_noclear(s, k) ==
  LET subs == Submissions(s)
      n == IF k = 0 \/ k > Len(subs) THEN Len(subs) ELSE k
      made == [i \in 1..n |->
                 [call |-> subs[i].call, arg |-> subs[i].arg, raised |-> (i = k)]]
      s1 == [s EXCEPT !.journal = @ \o made]
  IN [s1 EXCEPT !.callbacks = @ + 1]

\* k is the submission at which the journal raises (0, or past the end: none)
_finish(s, k) ==
  LET subs == Submissions(s)
      n == IF k = 0 \/ k > Len(subs) THEN Len(subs) ELSE k
      made == [i \in 1..n |->
                 [call |-> subs[i].call, arg |-> subs[i].arg, raised |-> (i = k)]]
      s1 == [s EXCEPT !.journal = @ \o made]
      s2 == ClearHandlers(s1)
  IN [s2 EXCEPT !.callbacks = @ + 1]

\* _handleuncommitted that never sets ProcessingUncommitted
_handleuncommitted_noflag(s, k) ==
  IF ~s.ProcessingUncommitted /\ Len(s.UncommittedTransactions) > 0
  THEN LET r == _kick_off_next_transaction(
                  MarkTransactions(s, s.UncommittedTransactions))
       IN IF r.ret THEN r.s ELSE _finish(r.s, k)
  ELSE _finish(s, k)

_handleuncommitted(s, k) ==
  IF ~s.ProcessingUncommitted /\ Len(s.UncommittedTransactions) > 0
  THEN LET s1 == [s EXCEPT !.ProcessingUncommitted = TRUE]
           r == _kick_off_next_transaction(
                  MarkTransactions(s1, s1.UncommittedTransactions))
       IN IF r.ret THEN r.s ELSE _finish(r.s, k)
  ELSE _finish(s, k)

\* initiate_journal_transfer with the two maps made once, in __init__, and
\* not again for a retry
initiate_journal_transfer_keepmaps(s, choice) ==
  IF Cardinality(peer_list) = 0
  THEN [s EXCEPT !.timers = @ + 1]
  ELSE LET s1 == [s EXCEPT !.Peer = choice,
                           !.PendingBlocks = <<>>, !.PendingTransactions = <<>>,
                           !.ProcessingUncommitted = FALSE,
                           !.UncommittedTransactions = <<>>,
                           !.discB = <<>>, !.discT = <<>>, !.log = <<>>]
           s2 == [s1 EXCEPT !.handlers = @ \cup ReplyKinds]
       IN send_message(s2, BlockListRequestMessage(0))

\* initiate_journal_transfer without the look at the peer list
initiate_journal_transfer_nocheck(s, choice) ==
  LET s1 == [s EXCEPT !.Peer = choice,
                      !.BlockMap = <<>>, !.PendingBlocks = <<>>,
                      !.TransactionMap = <<>>, !.PendingTransactions = <<>>,
                      !.ProcessingUncommitted = FALSE,
                      !.UncommittedTransactions = <<>>,
                      !.discB = <<>>, !.discT = <<>>, !.log = <<>>]
      s2 == [s1 EXCEPT !.handlers = @ \cup ReplyKinds]
  IN send_message(s2, BlockListRequestMessage(0))

\* choice is the peer random.choice picks
initiate_journal_transfer(s, choice) ==
  IF Cardinality(peer_list) = 0
  THEN [s EXCEPT !.timers = @ + 1]
  ELSE LET s1 == [s EXCEPT !.Peer = choice,
                           !.BlockMap = <<>>, !.PendingBlocks = <<>>,
                           !.TransactionMap = <<>>, !.PendingTransactions = <<>>,
                           !.ProcessingUncommitted = FALSE,
                           !.UncommittedTransactions = <<>>,
                           !.discB = <<>>, !.discT = <<>>, !.log = <<>>]
           s2 == [s1 EXCEPT !.handlers =
                    ((((@ \cup {"BlockListReplyMessage"}) \cup {"BlockReplyMessage"})
                       \cup {"UncommittedListReplyMessage"})
                       \cup {"TransactionReplyMessage"})
                       \cup {"TransferFailedMessage"}]
       IN send_message(s2, BlockListRequestMessage(0))

\* _failedhandler reporting completion as well as retrying
_failedhandler_callback(s) ==
  [ClearHandlers(s) EXCEPT !.timers = @ + 1, !.callbacks = @ + 1]

\* _failedhandler without the clear_message_handler(TransactionReplyMessage)
_failedhandler_keeps_one(s) ==
  [s EXCEPT !.timers = @ + 1,
            !.handlers = @ \ {"BlockListReplyMessage", "BlockReplyMessage",
                              "UncommittedListReplyMessage", "TransferFailedMessage"}]

\* _failedhandler without the reactor.callLater of the retry
_failedhandler_noretry(s) ==
  ClearHandlers(s)

_failedhandler(s) ==
  [ClearHandlers(s) EXCEPT !.timers = @ + 1]

\* _blocklistreplyhandler without the return after asking for the next page:
\* it goes on to drain the block queue in the same call
_blocklistreplyhandler_eager(s, msg) ==
  LET s1 == MarkBlocks(s, msg.BlockIDs)
      s2 == IF Len(msg.BlockIDs) > 0
            THEN send_message(s1,
                   BlockListRequestMessage(msg.BlockListIndex + Len(msg.BlockIDs)))
            ELSE s1
      r == _kick_off_next_block(s2)
  IN IF r.ret THEN r.s
     ELSE IF Len(msg.BlockIDs) > 0 THEN r.s
     ELSE send_message(r.s, UncommittedListRequestMessage(0))

\* _blocklistreplyhandler asking for the next page at the length of this one
_blocklistreplyhandler_offset(s, msg) ==
  LET s1 == MarkBlocks(s, msg.BlockIDs)
  IN IF Len(msg.BlockIDs) > 0
     THEN send_message(s1, BlockListRequestMessage(Len(msg.BlockIDs)))
     ELSE LET r == _kick_off_next_block(s1)
          IN IF r.ret THEN r.s
             ELSE send_message(r.s, UncommittedListRequestMessage(0))

_blocklistreplyhandler(s, msg) ==
  LET s1 == MarkBlocks(s, msg.BlockIDs)
  IN IF Len(msg.BlockIDs) > 0
     THEN send_message(s1,
            BlockListRequestMessage(msg.BlockListIndex + Len(msg.BlockIDs)))
     ELSE LET r == _kick_off_next_block(s1)
          IN IF r.ret THEN r.s
             ELSE send_message(r.s, UncommittedListRequestMessage(0))

\* _txnlistreplyhandler asking for a next page after an empty one too
_txnlistreplyhandler_nostop(s, msg, k) ==
  send_message(SaveUncommitted(s, msg.TransactionIDs),
               UncommittedListRequestMessage(
                 msg.TransactionListIndex + Len(msg.TransactionIDs)))

_txnlistreplyhandler(s, msg, k) ==
  LET s1 == SaveUncommitted(s, msg.TransactionIDs)
  IN IF Len(msg.TransactionIDs) > 0
     THEN send_message(s1,
            UncommittedListRequestMessage(
              msg.TransactionListIndex + Len(msg.TransactionIDs)))
     ELSE LET r == _kick_off_next_block(s1)
          IN IF r.ret THEN r.s ELSE _handleuncommitted(r.s, k)

\* gossip.unpack_message(type, message): the object inside the typed wrapper
unpack_message(type, wrapped) == wrapped.body

\* _blockreplyhandler draining the block queue before the transaction queue
_blockreplyhandler_blockfirst(s, msg, k) ==
  LET btype == msg.TransactionBlockMessage.TYPE
      bmessage == unpack_message(btype, msg.TransactionBlockMessage)
      s1 == [s EXCEPT !.BlockMap =
               OD_Set(@, bmessage.TransactionBlock.Identifier,
                      bmessage.TransactionBlock)]
      s2 == MarkTransactions(s1, bmessage.TransactionBlock.TransactionIDs)
      r1 == IF Len(s2.PendingBlocks) > 0 THEN _kick_off_next_block(s2)
            ELSE [s |-> s2, ret |-> FALSE]
      r2 == _kick_off_next_transaction(r1.s)
  IN IF r1.ret THEN r1.s
     ELSE IF r2.ret THEN r2.s
     ELSE _handleuncommitted(r2.s, k)

_blockreplyhandler(s, msg, k) ==
  LET btype == msg.TransactionBlockMessage.TYPE
      bmessage == unpack_message(btype, msg.TransactionBlockMessage)
      s1 == [s EXCEPT !.BlockMap =
               OD_Set(@, bmessage.TransactionBlock.Identifier,
                      bmessage.TransactionBlock)]
      s2 == MarkTransactions(s1, bmessage.TransactionBlock.TransactionIDs)
      r1 == _kick_off_next_transaction(s2)
      r2 == _kick_off_next_block(r1.s)
  IN IF r1.ret THEN r1.s
     ELSE IF r2.ret THEN r2.s
     ELSE _handleuncommitted(r2.s, k)

\* _txnreplyhandler handing the transaction to the journal as it arrives
_txnreplyhandler_eager(s, msg, k) ==
  LET ttype == msg.TransactionMessage.TYPE
      tmessage == unpack_message(ttype, msg.TransactionMessage)
      s1 == [s EXCEPT !.TransactionMap =
               OD_Set(@, tmessage.Transaction.Identifier, tmessage.Transaction),
                      !.journal = Append(@, [call |-> "add_pending_transaction",
                                             arg |-> tmessage.Transaction,
                                             raised |-> FALSE])]
      r1 == _kick_off_next_transaction(s1)
      r2 == _kick_off_next_block(r1.s)
  IN IF r1.ret THEN r1.s
     ELSE IF r2.ret THEN r2.s
     ELSE _handleuncommitted(r2.s, k)

_txnreplyhandler(s, msg, k) ==
  LET ttype == msg.TransactionMessage.TYPE
      tmessage == unpack_message(ttype, msg.TransactionMessage)
      s1 == [s EXCEPT !.TransactionMap =
               OD_Set(@, tmessage.Transaction.Identifier, tmessage.Transaction)]
      r1 == _kick_off_next_transaction(s1)
      r2 == _kick_off_next_block(r1.s)
  IN IF r1.ret THEN r1.s
     ELSE IF r2.ret THEN r2.s
     ELSE _handleuncommitted(r2.s, k)

\* ------------------------------------------------------------ the actions
\* the journal may raise at any submission of _finish, or at none
MaxSubmissions == Cardinality(Blocks) + Cardinality(Txns)
Raise == 0..MaxSubmissions

RECURSIVE SeqsUpTo(_, _)
SeqsUpTo(S, n) ==
  IF n = 0 THEN {<<>>}
  ELSE LET shorter == SeqsUpTo(S, n - 1)
       IN shorter \cup {Append(q, x) : q \in shorter, x \in S}

\* ids the replies of one kind have carried in this attempt
RECURSIVE Received(_, _)
Received(l, kind) ==
  IF l = <<>> THEN 0
  ELSE Received(Tail(l), kind)
       + (IF Head(l).ev = "recv" /\ Head(l).msg.type = kind
          THEN Len(Head(l).msg.ids) ELSE 0)

Remove(q, i) == [j \in 1..(Len(q) - 1) |-> IF j < i THEN q[j] ELSE q[j + 1]]

\* the handler of kind gets msg, the answer to the i-th request in flight
Receive(i, msg) ==
  [Self EXCEPT !.net = Remove(@, i),
               !.log = Append(@, [ev |-> "recv", msg |-> msg])]

Stores == <<BlockStore, TransactionStore>>
Frame == UNCHANGED <<peer_list, Stores, everPeer>>

Init ==
  /\ pc = "new"
  /\ peer_list \in PeerLists
  /\ BlockStore \in SUBSET Blocks
  /\ TransactionStore \in SUBSET Txns
  /\ Peer = "none"
  /\ BlockMap = <<>> /\ PendingBlocks = <<>>
  /\ TransactionMap = <<>> /\ PendingTransactions = <<>>
  /\ ProcessingUncommitted = FALSE
  /\ UncommittedTransactions = <<>>
  /\ handlers = {}
  /\ timers = 0
  /\ net = <<>>
  /\ journal = <<>>
  /\ callbacks = 0
  /\ log = <<>>
  /\ discB = <<>> /\ discT = <<>>
  /\ lastop = "none"
  /\ everPeer = (peer_list # {})
  /\ everFailed = FALSE
  /\ lost = FALSE

InitiateOp == IF peer_list = {} THEN "initiate:deferred" ELSE "initiate:started"

\* start_journal_transfer(journal, oncomplete)
start_journal_transfer ==
  /\ pc = "new"
  /\ \E Restore \in BOOLEAN, persisted \in 0..2 :
       IF Restore /\ persisted > 1
       THEN /\ pc' = "declined"
            /\ lastop' = "start:declined"
            /\ UNCHANGED <<Peer, BlockMap, PendingBlocks, TransactionMap,
                           PendingTransactions, ProcessingUncommitted,
                           UncommittedTransactions, handlers, timers, net,
                           journal, callbacks, log, discB, discT>>
       ELSE /\ pc' = "started"
            /\ lastop' = InitiateOp
            /\ \E choice \in (IF peer_list = {} THEN {Peer} ELSE peer_list) :
                 Store(initiate_journal_transfer(Self, choice))
  /\ UNCHANGED <<everFailed, lost>>
  /\ Frame

\* a reactor.callLater(10, self.initiate_journal_transfer) comes due
TimerFires ==
  /\ timers > 0
  /\ lastop' = InitiateOp
  /\ \E choice \in (IF peer_list = {} THEN {Peer} ELSE peer_list) :
       Store(initiate_journal_transfer([Self EXCEPT !.timers = @ - 1], choice))
  /\ UNCHANGED pc
  /\ UNCHANGED <<everFailed, lost>>
  /\ Frame

\* the gossip layer gains or loses peers; only initiate_journal_transfer
\* reads the list, so only the changes before a call of it are followed
PeerListChanges ==
  /\ pc = "new" \/ timers > 0
  /\ \E l \in PeerLists \ {peer_list} :
       /\ peer_list' = l
       /\ everPeer' = (everPeer \/ l # {})
  /\ UNCHANGED <<pc, BlockStore, TransactionStore, Peer, BlockMap, PendingBlocks,
                 TransactionMap, PendingTransactions, ProcessingUncommitted,
                 UncommittedTransactions, handlers, timers, net, journal,
                 callbacks, log, discB, discT, lastop, everFailed, lost>>

\* the peer answers a BlockListRequest with a page of block ids
RecvBlockListReply ==
  /\ "BlockListReplyMessage" \in handlers
  /\ \E i \in 1..Len(net) :
       /\ net[i].type = "BlockListRequestMessage"
       /\ \E ids \in SeqsUpTo(Blocks, MaxIds - Received(log, "BlockListReplyMessage")) :
            Store(_blocklistreplyhandler(
                    Receive(i, [type |-> "BlockListReplyMessage",
                                BlockListIndex |-> net[i].BlockListIndex,
                                ids |-> ids, BlockIDs |-> ids]),
                    [BlockListIndex |-> net[i].BlockListIndex, BlockIDs |-> ids]))
  /\ lastop' = "_blocklistreplyhandler"
  /\ UNCHANGED pc
  /\ UNCHANGED <<everFailed, lost>>
  /\ Frame

\* the peer answers an UncommittedListRequest with a page of transaction ids
RecvUncommittedListReply ==
  /\ "UncommittedListReplyMessage" \in handlers
  /\ \E i \in 1..Len(net), k \in Raise :
       /\ net[i].type = "UncommittedListRequestMessage"
       /\ \E ids \in SeqsUpTo(Txns, MaxIds - Received(log, "UncommittedListReplyMessage")) :
            Store(_txnlistreplyhandler(
                    Receive(i, [type |-> "UncommittedListReplyMessage",
                                TransactionListIndex |-> net[i].TransactionListIndex,
                                ids |-> ids]),
                    [TransactionListIndex |-> net[i].TransactionListIndex,
                     TransactionIDs |-> ids],
                    k))
  /\ lastop' = "_txnlistreplyhandler"
  /\ UNCHANGED pc
  /\ UNCHANGED <<everFailed, lost>>
  /\ Frame

\* the peer answers a BlockRequest with the block of that id
RecvBlockReply ==
  /\ "BlockReplyMessage" \in handlers
  /\ \E i \in 1..Len(net), k \in Raise :
       /\ net[i].type = "BlockRequestMessage"
       /\ Store(_blockreplyhandler(
                  Receive(i, [type |-> "BlockReplyMessage", ids |-> <<>>,
                              id |-> net[i].BlockID]),
                  [TransactionBlockMessage |->
                     [TYPE |-> "TransactionBlockMessage",
                      body |-> [TransactionBlock |->
                                  BlockRecord(net[i].BlockID, "peer")]]],
                  k))
  /\ lastop' = "_blockreplyhandler"
  /\ UNCHANGED pc
  /\ UNCHANGED <<everFailed, lost>>
  /\ Frame

\* the peer answers a TransactionRequest with the transaction of that id
RecvTransactionReply ==
  /\ "TransactionReplyMessage" \in handlers
  /\ \E i \in 1..Len(net), k \in Raise :
       /\ net[i].type = "TransactionRequestMessage"
       /\ Store(_txnreplyhandler(
                  Receive(i, [type |-> "TransactionReplyMessage", ids |-> <<>>,
                              id |-> net[i].TransactionID]),
                  [TransactionMessage |->
                     [TYPE |-> "TransactionMessage",
                      body |-> [Transaction |->
                                  TransactionRecord(net[i].TransactionID, "peer")]]],
                  k))
  /\ lastop' = "_txnreplyhandler"
  /\ UNCHANGED pc
  /\ UNCHANGED <<everFailed, lost>>
  /\ Frame

\* the peer answers a request with TransferFailed instead of its reply
RecvTransferFailed ==
  /\ "TransferFailedMessage" \in handlers
  /\ \E i \in 1..Len(net) :
       Store(_failedhandler(
               Receive(i, [type |-> "TransferFailedMessage", ids |-> <<>>,
                           InReplyTo |-> net[i].type])))
  /\ lastop' = "_failedhandler"
  /\ UNCHANGED pc
  /\ everFailed' = TRUE
  /\ lost' = (lost \/ BlockMap # <<>> \/ TransactionMap # <<>>)
  /\ Frame

Next ==
  \/ start_journal_transfer
  \/ TimerFires
  \/ PeerListChanges
  \/ RecvBlockListReply
  \/ RecvUncommittedListReply
  \/ RecvBlockReply
  \/ RecvTransactionReply
  \/ RecvTransferFailed

Spec == Init /\ [][Next]_vars

\* the reactor runs what is due: the call of start_journal_transfer and a
\* callLater that has come due
SpecFair ==
  /\ Spec
  /\ WF_vars(start_journal_transfer)
  /\ WF_vars(TimerFires)

\* ---------------------------------------------------------- the properties
IsSend(e, kind) == e.ev = "send" /\ e.msg.type = kind
IsRecv(e, kind) == e.ev = "recv" /\ e.msg.type = kind
InFlight(kind) == Cardinality({i \in 1..Len(net) : net[i].type = kind})
SendsOf(kind) == SelectSeq(log, LAMBDA e : IsSend(e, kind))
RecvsOf(kind) == SelectSeq(log, LAMBDA e : IsRecv(e, kind))
Range(q) == {q[i] : i \in 1..Len(q)}

\* the ids of q in the order of their first occurrence
RECURSIVE FirstOccurrences(_)
FirstOccurrences(q) ==
  IF q = <<>> THEN <<>>
  ELSE LET front == FirstOccurrences(SubSeq(q, 1, Len(q) - 1))
           x == q[Len(q)]
       IN IF x \in Range(front) THEN front ELSE Append(front, x)

\* scanning l: no request of kind req is sent while an earlier one of the
\* attempt still waits for its reply of kind rep (open is that earlier one's id)
RECURSIVE OneAtATime(_, _, _, _)
OneAtATime(l, req, rep, open) ==
  IF l = <<>> THEN TRUE
  ELSE LET e == Head(l)
       IN IF IsSend(e, req)
          THEN open = "" /\ OneAtATime(Tail(l), req, rep,
                                       IF req = "BlockRequestMessage"
                                       THEN e.msg.BlockID ELSE e.msg.TransactionID)
          ELSE IF IsRecv(e, rep)
          THEN e.msg.id = open /\ OneAtATime(Tail(l), req, rep, "")
          ELSE OneAtATime(Tail(l), req, rep, open)

\* C1: at most one BlockRequest and at most one TransactionRequest is in
\* flight, and a request for a body is sent only after the reply to the
\* request before it, of the same kind, has been handled.
C1_SingleBodyRequestInFlight ==
  /\ InFlight("BlockRequestMessage") <= 1
  /\ InFlight("TransactionRequestMessage") <= 1
  /\ OneAtATime(log, "BlockRequestMessage", "BlockReplyMessage", "")
  /\ OneAtATime(log, "TransactionRequestMessage", "TransactionReplyMessage", "")

\* a second BlockRequest and a second TransactionRequest of one attempt are
\* out, the latter still unanswered
C1_Witness ==
  /\ InFlight("TransactionRequestMessage") = 1
  /\ Len(SendsOf("TransactionRequestMessage")) >= 2
  /\ Len(SendsOf("BlockRequestMessage")) >= 2

\* C2: no BlockRequest / TransactionRequest is ever sent for an id of the
\* local store; such an id, once popped, has the local store's record in the
\* map; the block list [b1, b2] with only b1 local yields exactly one
\* BlockRequest, for b2.
C2_Dedup ==
  /\ \A i \in 1..Len(log) :
       /\ IsSend(log[i], "BlockRequestMessage") => log[i].msg.BlockID \notin BlockStore
       /\ IsSend(log[i], "TransactionRequestMessage")
            => log[i].msg.TransactionID \notin TransactionStore
  /\ \A i \in 1..Len(BlockMap) :
       (BlockMap[i].k \in BlockStore /\ BlockMap[i].k \notin Range(PendingBlocks))
       => BlockMap[i].v = BlockRecord(BlockMap[i].k, "local")
  /\ \A i \in 1..Len(TransactionMap) :
       (TransactionMap[i].k \in TransactionStore
          /\ TransactionMap[i].k \notin Range(PendingTransactions))
       => TransactionMap[i].v = TransactionRecord(TransactionMap[i].k, "local")
  /\ (/\ discB = <<"b1", "b2">>
      /\ BlockStore = {"b1"}
      /\ PendingBlocks = <<>>)
     => [i \in 1..Len(SendsOf("BlockRequestMessage")) |->
           SendsOf("BlockRequestMessage")[i].msg.BlockID] = <<"b2">>

\* scenario A: [b1, b2] listed, b1 local and copied, b2 asked for
C2_Witness ==
  /\ discB = <<"b1", "b2">>
  /\ BlockStore = {"b1"}
  /\ OD_Get(BlockMap, "b1") = BlockRecord("b1", "local")
  /\ net = <<BlockRequestMessage("b2")>>

\* what _finish has called, as <<call, id>> pairs
JournalCalls == [i \in 1..Len(journal) |-> <<journal[i].call, journal[i].arg.Identifier>>]
NothingRaised == \A i \in 1..Len(journal) : ~journal[i].raised
\* the calls discovery order asks for
DiscoveryOrderCalls ==
  [i \in 1..Len(FirstOccurrences(discT)) |->
     <<"add_pending_transaction", FirstOccurrences(discT)[i]>>]
  \o
  [i \in 1..Len(FirstOccurrences(discB)) |->
     <<"commit_transaction_block", FirstOccurrences(discB)[i]>>]

\* C3: the calls _finish makes on the journal are the transactions in the
\* order their ids were first discovered, then the blocks in the order their
\* ids were first discovered; a raise cuts that sequence short but never
\* reorders it.
C3_CommitOrdering ==
  callbacks > 0 =>
    /\ Len(JournalCalls) <= Len(DiscoveryOrderCalls)
    /\ JournalCalls = SubSeq(DiscoveryOrderCalls, 1, Len(JournalCalls))
    /\ NothingRaised => JournalCalls = DiscoveryOrderCalls
    /\ \A i, j \in 1..Len(journal) :
         (journal[i].call = "commit_transaction_block"
            /\ journal[j].call = "add_pending_transaction") => j < i

\* t2 was discovered before t1 and referenced again after it, and both
\* blocks were committed after both transactions
C3_Witness ==
  /\ callbacks = 1
  /\ discT = <<"t2", "t1", "t2">>
  /\ NothingRaised
  /\ Len(journal) = 4

\* C4: when the K-th submission of _finish raises, the K-1 before it were
\* made and did not raise, none after it is attempted, the five handlers are
\* cleared all the same and the callback is called.
C4_AbandonOnError ==
  /\ \A i \in 1..Len(journal) : journal[i].raised => i = Len(journal)
  /\ callbacks > 0 =>
       LET subs == Submissions(Self)
       IN /\ handlers = {}
          /\ Len(journal) <= Len(subs)
          /\ \A i \in 1..Len(journal) :
               journal[i].call = subs[i].call /\ journal[i].arg = subs[i].arg
          /\ NothingRaised => Len(journal) = Len(subs)
  /\ ~NothingRaised => callbacks = 1 /\ handlers = {}

\* the second of four submissions raised: one transaction is staged, the
\* other and both blocks are skipped
C4_Witness ==
  /\ Len(journal) = 2
  /\ journal[2].raised
  /\ journal[2].call = "add_pending_transaction"
  /\ Len(BlockMap) = 2
  /\ Len(TransactionMap) = 2
  /\ callbacks = 1
  /\ handlers = {}

FinishingHandlers == {"_txnlistreplyhandler", "_blockreplyhandler", "_txnreplyhandler"}

\* C5: the callback is called at most once, by a handler that reached
\* _finish, and never by _failedhandler.
C5_CallbackAtMostOnce ==
  /\ callbacks <= 1
  /\ callbacks = 1 => lastop \in FinishingHandlers /\ handlers = {} /\ timers = 0
  /\ lastop = "_failedhandler" => callbacks = 0

\* the callback was called by an attempt that followed a failed one
C5_Witness == callbacks = 1 /\ everFailed /\ lost

SessionState ==
  <<Peer, BlockMap, PendingBlocks, TransactionMap, PendingTransactions,
    ProcessingUncommitted, UncommittedTransactions, discB, discT>>

\* initiate_journal_transfer has just started an attempt
AttemptStarts ==
  /\ handlers = ReplyKinds
  /\ net = <<BlockListRequestMessage(0)>>
  /\ log = <<[ev |-> "send", msg |-> BlockListRequestMessage(0)]>>
  /\ BlockMap = <<>> /\ PendingBlocks = <<>>
  /\ TransactionMap = <<>> /\ PendingTransactions = <<>>
  /\ UncommittedTransactions = <<>> /\ ~ProcessingUncommitted

\* C6: _failedhandler leaves no handler registered and one restart
\* scheduled; from then until the restart runs nothing is handled: no map,
\* queue or flag changes and nothing is sent.
C6_FailureStopsSession ==
  /\ [](lastop = "_failedhandler" => handlers = {} /\ timers = 1 /\ callbacks = 0)
  /\ [][(handlers = {} /\ timers = 1 /\ everFailed)
        => \/ UNCHANGED <<SessionState, handlers, timers, net, log, journal, callbacks>>
           \/ (timers' = 0 /\ AttemptStarts')]_vars

\* scenario C: TransferFailed arrived while a BlockRequest was out
C6_Witness ==
  /\ lastop = "_failedhandler"
  /\ log[Len(log)].msg.InReplyTo = "BlockRequestMessage"
  /\ BlockMap # <<>>
  /\ handlers = {}
  /\ timers = 1

Keys(m) == {m[i].k : i \in 1..Len(m)}

\* C7: an attempt, first or retry, starts with both maps, both queues and
\* the uncommitted list empty and the flag false; the maps and the journal
\* never hold an id the current attempt did not discover itself.
C7_FreshStatePerAttempt ==
  /\ lastop = "initiate:started" => AttemptStarts
  /\ Keys(BlockMap) \subseteq Range(discB)
  /\ Keys(TransactionMap) \subseteq Range(discT)
  /\ \A i \in 1..Len(journal) :
       journal[i].arg.Identifier \in Range(discB) \cup Range(discT)

\* a retry starts after an attempt that failed with ids in its maps
C7_Witness == lastop = "initiate:started" /\ lost /\ BlockMap = <<>>

\* C8: initiate_journal_transfer with an empty peer list only schedules
\* itself again: nothing is sent, no handler is registered, no field
\* changes; while the peer list has never held a peer no request is sent.
C8_NoPeerDeferral ==
  /\ [](~everPeer => /\ net = <<>> /\ log = <<>> /\ handlers = {}
                     /\ BlockMap = <<>> /\ TransactionMap = <<>>
                     /\ Peer = "none")
  /\ [](lastop = "initiate:deferred" => timers = 1 /\ handlers = {} /\ net = <<>>)
  /\ [][lastop' = "initiate:deferred"
        => /\ UNCHANGED <<SessionState, handlers, net, log, journal, callbacks>>
           /\ timers' = 1]_vars

\* the first call found no peer and is waiting to run again
C8_Witness ==
  /\ pc = "started"
  /\ lastop = "initiate:deferred"
  /\ ~everPeer
  /\ timers = 1

ListIndex(msg) ==
  IF msg.type = "BlockListRequestMessage"
  THEN msg.BlockListIndex ELSE msg.TransactionListIndex

\* scanning l: a request of kind req not asked for by a page is at offset 0;
\* a page of n > 0 ids is followed at once by one request of kind req, at the
\* offset of the request before plus n (expect), which is the number of ids
\* of the pages so far (total).  expect = -1: no page waits for its request.
RECURSIVE PagesFollowed(_, _, _, _, _, _)
PagesFollowed(l, req, rep, offset, total, expect) ==
  IF l = <<>> THEN expect = -1
  ELSE LET e == Head(l)
       IN IF expect >= 0
          THEN /\ IsSend(e, req)
               /\ ListIndex(e.msg) = expect
               /\ ListIndex(e.msg) = total
               /\ Len(l) > 1 => l[2].ev = "recv"
               /\ PagesFollowed(Tail(l), req, rep, expect, total, -1)
          ELSE IF IsRecv(e, rep) /\ Len(e.msg.ids) > 0
          THEN PagesFollowed(Tail(l), req, rep, offset,
                             total + Len(e.msg.ids), offset + Len(e.msg.ids))
          ELSE IF IsSend(e, req)
          THEN /\ ListIndex(e.msg) = 0 /\ total = 0
               /\ PagesFollowed(Tail(l), req, rep, 0, 0, -1)
          ELSE PagesFollowed(Tail(l), req, rep, offset, total, -1)

\* C9: for the block list and for the uncommitted list, every page of n > 0
\* ids is followed by exactly one request for the next page, at the offset
\* of the request before plus n; the k-th request's offset is the number of
\* ids of pages 1..k-1, from 0.
C9_PaginationOffsets ==
  /\ PagesFollowed(log, "BlockListRequestMessage", "BlockListReplyMessage", 0, 0, -1)
  /\ PagesFollowed(log, "UncommittedListRequestMessage",
                   "UncommittedListReplyMessage", 0, 0, -1)

\* two block pages of one id each: requests at 0, 1 and 2
C9_Witness ==
  LET q == SendsOf("BlockListRequestMessage")
  IN Len(q) = 3 /\ q[2].msg.BlockListIndex = 1 /\ q[3].msg.BlockListIndex = 2

\* the ids of the pages of kind rep in l, one after the other
RECURSIVE PagesConcat(_, _)
PagesConcat(l, rep) ==
  IF l = <<>> THEN <<>>
  ELSE (IF IsRecv(Head(l), rep) THEN Head(l).msg.ids ELSE <<>>)
       \o PagesConcat(Tail(l), rep)

\* scanning l: after an empty page of kind rep no request of kind req
RECURSIVE StopsAtEmptyPage(_, _, _, _)
StopsAtEmptyPage(l, req, rep, ended) ==
  IF l = <<>> THEN TRUE
  ELSE /\ ~(ended /\ IsSend(Head(l), req))
       /\ StopsAtEmptyPage(Tail(l), req, rep,
            ended \/ (IsRecv(Head(l), rep) /\ Head(l).msg.ids = <<>>))

ListEnded(rep) == \E i \in 1..Len(log) : IsRecv(log[i], rep) /\ log[i].msg.ids = <<>>

\* C10: the ids collected from a list are its non-empty pages one after the
\* other (so as many as the pages' lengths add up to), and once an empty
\* page has been handled the attempt sends no further request for that list.
C10_PaginationTermination ==
  /\ UncommittedTransactions = PagesConcat(log, "UncommittedListReplyMessage")
  /\ Len(UncommittedTransactions) = Received(log, "UncommittedListReplyMessage")
  /\ discB = PagesConcat(log, "BlockListReplyMessage")
  /\ ~ListEnded("BlockListReplyMessage")
       => /\ PendingBlocks = PagesConcat(log, "BlockListReplyMessage")
          /\ Len(PendingBlocks) = Received(log, "BlockListReplyMessage")
  /\ StopsAtEmptyPage(log, "BlockListRequestMessage", "BlockListReplyMessage", FALSE)
  /\ StopsAtEmptyPage(log, "UncommittedListRequestMessage",
                      "UncommittedListReplyMessage", FALSE)

\* the uncommitted list came in two pages and an empty one, and the attempt
\* went on to fetch a transaction
C10_Witness ==
  /\ Len(RecvsOf("UncommittedListReplyMessage")) = 3
  /\ Len(UncommittedTransactions) = 2
  /\ ListEnded("UncommittedListReplyMessage")
  /\ ListEnded("BlockListReplyMessage")
  /\ Len(SendsOf("TransactionRequestMessage")) > 0

\* C11: an attempt does not reach the commit step without having asked the
\* peer for its uncommitted-transaction list, whether or not a body had to
\* be fetched.
C11_UncommittedListRequested ==
  callbacks > 0 => Len(SendsOf("UncommittedListRequestMessage")) > 0

NoRepeats(q) == \A i, j \in 1..Len(q) : q[i] = q[j] => i = j
RequestedBlocks ==
  [i \in 1..Len(SendsOf("BlockRequestMessage")) |->
     SendsOf("BlockRequestMessage")[i].msg.BlockID]
RequestedTransactions ==
  [i \in 1..Len(SendsOf("TransactionRequestMessage")) |->
     SendsOf("TransactionRequestMessage")[i].msg.TransactionID]

\* C12: in one attempt an id is marked pending and enqueued at most once,
\* and at most one request is sent for it.
C12_InsertedOnce ==
  /\ NoRepeats(discT)
  /\ NoRepeats(discB)
  /\ NoRepeats(RequestedTransactions)
  /\ NoRepeats(RequestedBlocks)

\* the transaction ids of the blocks of q, block after block
RECURSIVE BlocksTransactionIDs(_)
BlocksTransactionIDs(q) ==
  IF q = <<>> THEN <<>>
  ELSE ChainTransactionIDs(Head(q)) \o BlocksTransactionIDs(Tail(q))

\* the blocks of this attempt whose record is in BlockMap: those listed,
\* less those still queued and the one asked for and not yet answered
ResolvedBlocks ==
  SubSeq(discB, 1, Len(discB) - Len(PendingBlocks) - InFlight("BlockRequestMessage"))

\* C13: _handleuncommitted, finding the uncommitted list non-empty and the
\* flag false, sets the flag and enqueues the uncommitted ids, in order, once
\* in the attempt; finding the list empty or the flag set it enqueues nothing
\* and commits (an empty first UncommittedListReply is the last message of
\* its attempt).
C13_UncommittedHandOff ==
  (handlers # {} \/ callbacks > 0) =>
    /\ discT = BlocksTransactionIDs(ResolvedBlocks)
               \o (IF ProcessingUncommitted THEN UncommittedTransactions ELSE <<>>)
    /\ ProcessingUncommitted
         => /\ UncommittedTransactions # <<>>
            /\ ListEnded("UncommittedListReplyMessage")
    /\ (callbacks > 0 /\ UncommittedTransactions # <<>>) => ProcessingUncommitted
    /\ (/\ callbacks > 0
        /\ UncommittedTransactions = <<>>
        /\ ListEnded("UncommittedListReplyMessage"))
       => IsRecv(log[Len(log)], "UncommittedListReplyMessage")

\* two uncommitted ids were handed over after a block's transactions, one of
\* them was fetched, and the attempt committed
C13_Witness ==
  /\ callbacks = 1
  /\ ProcessingUncommitted
  /\ Len(UncommittedTransactions) = 2
  /\ Len(discT) > 2
  /\ Len(SendsOf("TransactionRequestMessage")) > 0

\* the step is a body-reply handler: the log grows by the reply received and
\* the requests the handler sent
BodyReplyStep ==
  /\ Len(log') > Len(log)
  /\ SubSeq(log', 1, Len(log)) = log
  /\ \/ IsRecv(log'[Len(log) + 1], "BlockReplyMessage")
     \/ IsRecv(log'[Len(log) + 1], "TransactionReplyMessage")

\* the requests sent in the step
SentInStep == SubSeq(log', Len(log) + 2, Len(log'))

\* the transaction queue the handler drains: the queue it found, with the
\* transaction ids of the block when the reply is a block
QueueToDrain ==
  PendingTransactions
  \o (IF IsRecv(log'[Len(log) + 1], "BlockReplyMessage")
      THEN ChainTransactionIDs(log'[Len(log) + 1].msg.id) ELSE <<>>)

NotLocal(q) == SelectSeq(q, LAMBDA t : t \notin TransactionStore)

\* C14: a body-reply handler that finds in the transaction queue an id that
\* is not in the local TransactionStore sends exactly one request, a
\* TransactionRequest for the first such id; it sends a BlockRequest only
\* when no queued transaction needed a fetch.
C14_TransactionsDrainedFirst ==
  [][BodyReplyStep =>
       /\ Len(SentInStep) <= 1
       /\ NotLocal(QueueToDrain) # <<>>
            => SentInStep =
                 <<[ev |-> "send",
                    msg |-> TransactionRequestMessage(Head(NotLocal(QueueToDrain)))]>>
       /\ (\E i \in 1..Len(SentInStep) : IsSend(SentInStep[i], "BlockRequestMessage"))
            => NotLocal(QueueToDrain) = <<>>]_vars

\* a block arrived, one of its transactions is being fetched, and a block
\* that is not local waits in the block queue
C14_Witness ==
  /\ lastop = "_blockreplyhandler"
  /\ InFlight("TransactionRequestMessage") = 1
  /\ PendingBlocks # <<>>
  /\ Head(PendingBlocks) \notin BlockStore

\* C15: once the completion callback has been called no handler is
\* registered and no timer is pending, and no later step sends a request,
\* starts an attempt, submits to the journal or calls the callback again.
C15_DoneIsTerminal ==
  /\ [](callbacks > 0 => handlers = {} /\ timers = 0)
  /\ [][callbacks > 0 =>
          UNCHANGED <<SessionState, handlers, timers, net, log, journal,
                      callbacks, pc>>]_vars

\* the callback was called after a failed attempt and a retry, with
\* submissions made to the journal
C15_Witness ==
  /\ callbacks = 1
  /\ everFailed
  /\ Len(journal) > 0
  /\ handlers = {} /\ timers = 0

\* scanning l: a request and a message received take turns, a request first
RECURSIVE TakeTurns(_, _)
TakeTurns(l, sending) ==
  IF l = <<>> THEN TRUE
  ELSE /\ Head(l).ev = (IF sending THEN "send" ELSE "recv")
       /\ TakeTurns(Tail(l), ~sending)

\* C16: with a peer that answers each request once, at most one request of
\* any kind is outstanding, and in an attempt every request but the first
\* is sent after the answer to the request before it has been handled.
C16_OneRequestOutstanding ==
  /\ Len(net) <= 1
  /\ TakeTurns(log, TRUE)
  /\ Len(net) = (IF log # <<>> /\ log[Len(log)].ev = "send" THEN 1 ELSE 0)

\* after both lists were paged through, a transaction body is the one
\* request outstanding
C16_Witness ==
  /\ net = <<TransactionRequestMessage("t1")>>
  /\ ListEnded("UncommittedListReplyMessage")
  /\ ListEnded("BlockListReplyMessage")
  /\ Len(log) >= 8

\* every entry of the map m holds the record of its key
AllResolved(m) ==
  \A i \in 1..Len(m) : m[i].v # None /\ m[i].v.Identifier = m[i].k

\* C17: when _finish runs (the peer answering each body request with the
\* record asked for) both queues are empty and no entry of BlockMap or
\* TransactionMap is None, ids marked pending again after they had been
\* resolved included.
C17_ResolvedAtCommit ==
  callbacks > 0 =>
    /\ PendingBlocks = <<>>
    /\ PendingTransactions = <<>>
    /\ AllResolved(BlockMap)
    /\ AllResolved(TransactionMap)

\* the attempt committed after some transaction id was marked pending a
\* second time
C17_Witness ==
  /\ callbacks = 1
  /\ Len(TransactionMap) > 0
  /\ Len(discT) > Len(TransactionMap)
  /\ Len(BlockMap) > 0

\* C18: no add_pending_transaction or commit_transaction_block call is made
\* before _finish: the journal is untouched while no attempt has committed,
\* whatever was listed and fetched and however many attempts failed, and
\* no step but a committing one touches it.
C18_JournalUntouchedBeforeCommit ==
  /\ callbacks = 0 => journal = <<>>
  /\ lastop \in {"none", "start:declined", "initiate:deferred",
                 "initiate:started", "_failedhandler", "_blocklistreplyhandler"}
       => journal = <<>>

\* an attempt that had fetched a block and marked its transactions failed:
\* the journal is as it was
C18_Witness ==
  /\ lastop = "_failedhandler"
  /\ lost
  /\ BlockMap # <<>> /\ AllResolved(BlockMap)
  /\ TransactionMap # <<>>
  /\ journal = <<>>

\* an attempt is under way: it sent its first BlockListRequest and has
\* neither handled a TransferFailed nor run _finish
AttemptActive ==
  /\ callbacks = 0
  /\ lastop \in {"initiate:started", "_blocklistreplyhandler",
                 "_txnlistreplyhandler", "_blockreplyhandler", "_txnreplyhandler"}

\* C19: at most one callLater timer is pending, no handler is registered
\* while one is, and the five handlers are registered exactly while an
\* attempt is under way.
C19_TimersAndHandlers ==
  /\ timers <= 1
  /\ timers = 1 => handlers = {}
  /\ handlers \in {{}, ReplyKinds}
  /\ handlers = ReplyKinds <=> AttemptActive
  /\ AttemptActive => log # <<>> /\ log[1] = [ev |-> "send", msg |-> BlockListRequestMessage(0)]

\* after a failed attempt the retry found no peer: the backoff timer is the
\* one timer pending
C19_Witness ==
  /\ timers = 1
  /\ handlers = {}
  /\ everFailed
  /\ lastop = "initiate:deferred"

\* the step handles the peer's answer (a reply or TransferFailed) to the
\* request in flight
AnswerHandled == net # <<>> /\ log' # log

\* the peer answers every request and the answer is handled: no request
\* stays in flight for ever
EveryRequestAnswered == []<>(net = <<>>) \/ []<><<AnswerHandled>>_vars

\* C20: with the reactor running what is due and every request answered, if
\* the peer list is in the end never empty and TransferFailed is in the end
\* no longer received, a transfer that was started calls the completion
\* callback; every failure is followed by a retry; and if TransferFailed is
\* received again and again the callback is never called.
C20_EventualCompletion ==
  /\ (/\ EveryRequestAnswered
      /\ <>[](peer_list # {})
      /\ <>[](lastop # "_failedhandler"))
       => <>(callbacks = 1 \/ pc = "declined")
  /\ (lastop = "_failedhandler")
       ~> (lastop \in {"initiate:started", "initiate:deferred"})
  /\ []<>(lastop = "_failedhandler") => [](callbacks = 0)

\* the callback was called in an attempt that fetched a block and a
\* transaction, after an earlier attempt had failed
C20_Witness ==
  /\ callbacks = 1
  /\ everFailed
  /\ Len(SendsOf("BlockRequestMessage")) > 0
  /\ Len(SendsOf("TransactionRequestMessage")) > 0

====
